---------------------------- MODULE Spec2Model ----------------------------
(***************************************************************************)
(* A model of src/src/dateHelpers.ts: eight date helpers written on top of *)
(* the ECMAScript Date object.                                             *)
(*                                                                         *)
(* A Date is its time value.  ECMAScript keeps it as milliseconds since    *)
(* the epoch; here it is the pair (day, ms) = (Day(t), TimeWithinDay(t)),  *)
(* the same integer in mixed radix, so that every intermediate value stays *)
(* inside 32-bit integers.  An invalid Date (time value NaN) has           *)
(* valid = FALSE.  A Number that may be NaN is a record [nan, val].        *)
(* A String is a sequence of one-character strings.                        *)
(*                                                                         *)
(* The local time zone is part of the environment: the model runs the      *)
(* helpers in a zone without daylight saving ("UTC") and in one with it    *)
(* ("Europe/Berlin": one hour ahead of UTC, and two in summer, by the EU    *)
(* rule, from 1996 on; the rules the zone had before are left out).        *)
(***************************************************************************)
EXTENDS Integers, Sequences, FiniteSets

VARIABLES
    tz,        \* the host's local time zone
    op,        \* the helper whose call is shown ("idle" between calls)
    now,       \* what new Date() returned inside the call (isToday, timeAgo)
    date,      \* the Date argument
    str,       \* the string argument (format / dateString)
    num,       \* the numeric arguments: <<days>> or <<month, year>>; for a
               \* well-formed dateString the <<Y, M, D>> it was written from;
               \* for isToday and timeAgo the <<seconds, milliseconds>> that
               \* the Date argument lies before new Date()
    retDate,   \* the Date returned
    retStr,    \* the string returned
    retNum,    \* the number returned
    retBool    \* the boolean returned

vars == <<tz, op, now, date, str, num, retDate, retStr, retNum, retBool>>

----------------------------------------------------------------------------
(* ECMAScript numbers, time values                                         *)

NaN == [nan |-> TRUE, val |-> 0]

Num(n) == [nan |-> FALSE, val |-> n]

InvalidDate == [valid |-> FALSE, day |-> 0, ms |-> 0]

msPerDay == 1000 * 60 * 60 * 24

msPerHour == 1000 * 60 * 60

DaysInYear(y) ==
    IF y % 4 # 0 THEN 365
    ELSE IF y % 100 # 0 THEN 366
    ELSE IF y % 400 # 0 THEN 365
    ELSE 366

DayFromYear(y) ==
    365 * (y - 1970) + ((y - 1969) \div 4) - ((y - 1901) \div 100)
        + ((y - 1601) \div 400)

\* The largest y with DayFromYear(y) <= day.
YearFromDay(day) ==
    LET approx == 1970 + ((day * 400) \div 146097)
    IN  CHOOSE y \in (approx - 2)..(approx + 2) :
            DayFromYear(y) <= day /\ day < DayFromYear(y + 1)

InLeapYear(day) == DaysInYear(YearFromDay(day)) = 366

DayWithinYear(day) == day - DayFromYear(YearFromDay(day))

\* Days of the year before month m (0-based; 12 is the year's end).
MonthStart(m, leap) ==
    <<0, 31, 59, 90, 120, 151, 181, 212, 243, 273, 304, 334, 365>>[m + 1]
        + (IF leap /\ m >= 2 THEN 1 ELSE 0)

MonthFromDay(day) ==
    CHOOSE m \in 0..11 :
        /\ MonthStart(m, InLeapYear(day)) <= DayWithinYear(day)
        /\ DayWithinYear(day) < MonthStart(m + 1, InLeapYear(day))

DateFromDay(day) ==
    DayWithinYear(day) - MonthStart(MonthFromDay(day), InLeapYear(day)) + 1

WeekDay(day) == (day + 4) % 7

MakeTime(hour, min, sec, ms) ==
    hour * msPerHour + min * 60000 + sec * 1000 + ms

MakeDay(year, month, dt) ==
    LET ym == year + (month \div 12)
        mn == month % 12
    IN  DayFromYear(ym) + MonthStart(mn, DaysInYear(ym) = 366) + dt - 1

MakeDate(day, time) ==
    [valid |-> TRUE, day |-> day + (time \div msPerDay), ms |-> time % msPerDay]

\* A finite time value is at most 8.64e15 ms (100,000,000 days) from the epoch.
TimeClip(t) ==
    IF \/ t.day < -100000000
       \/ t.day > 100000000
       \/ (t.day = 100000000 /\ t.ms > 0)
    THEN InvalidDate
    ELSE t

\* a <= b for two time values
TimeLeq(a, b) == a.day < b.day \/ (a.day = b.day /\ a.ms <= b.ms)

----------------------------------------------------------------------------
(* The local time zone                                                     *)

Zones == {"UTC", "Europe/Berlin"}

HasDST(zone) == zone = "Europe/Berlin"

StdOffset(zone) == IF zone = "UTC" THEN 0 ELSE msPerHour

\* The day of the last Sunday of a 31-day month (0-based m).
LastSunday(y, m) == MakeDay(y, m, 31) - WeekDay(MakeDay(y, m, 31))

\* Summer time runs from 01:00 UTC on the last Sunday of March to 01:00 UTC on
\* the last Sunday of October, in every year from 1996 on.
IsDST(zone, t) ==
    /\ HasDST(zone)
    /\ LET y == YearFromDay(t.day)
       IN  /\ y >= 1996
           /\ TimeLeq(MakeDate(LastSunday(y, 2), msPerHour), t)
           /\ ~TimeLeq(MakeDate(LastSunday(y, 9), msPerHour), t)

Offset(zone, t) == StdOffset(zone) + (IF IsDST(zone, t) THEN msPerHour ELSE 0)

LocalTime(zone, t) == MakeDate(t.day, t.ms + Offset(zone, t))

\* The time value of a local time.  A local time that occurs twice (the hour
\* repeated in autumn) or never (the hour skipped in spring) is read with the
\* offset in force before the transition.
UTC(zone, tl) ==
    LET asSummer == MakeDate(tl.day, tl.ms - StdOffset(zone) - msPerHour)
        asWinter == MakeDate(tl.day, tl.ms - StdOffset(zone))
    IN  IF IsDST(zone, asSummer) THEN asSummer ELSE asWinter

----------------------------------------------------------------------------
(* Date: constructors and accessors                                        *)

\* new Date(year, month, date): a year 0..99 means 1900 + year.
NewDate(zone, year, month, dt) ==
    IF year.nan \/ month.nan \/ dt.nan
    THEN InvalidDate
    ELSE LET yr == IF 0 <= year.val /\ year.val <= 99
                   THEN 1900 + year.val ELSE year.val
         IN  TimeClip(UTC(zone, MakeDate(MakeDay(yr, month.val, dt.val), 0)))

getFullYear(zone, d) == YearFromDay(LocalTime(zone, d).day)

getMonth(zone, d) == MonthFromDay(LocalTime(zone, d).day)

getDate(zone, d) == DateFromDay(LocalTime(zone, d).day)

getDay(zone, d) == WeekDay(LocalTime(zone, d).day)

getHours(zone, d) == LocalTime(zone, d).ms \div msPerHour

getMinutes(zone, d) == (LocalTime(zone, d).ms \div 60000) % 60

getSeconds(zone, d) == (LocalTime(zone, d).ms \div 1000) % 60

\* date.setDate(dt): the local day is replaced, the local time of day kept.
setDate(zone, d, dt) ==
    IF ~d.valid \/ dt.nan
    THEN InvalidDate
    ELSE LET t == LocalTime(zone, d)
         IN  TimeClip(UTC(zone, MakeDate(
                 MakeDay(YearFromDay(t.day), MonthFromDay(t.day), dt.val),
                 t.ms)))

----------------------------------------------------------------------------
(* Strings                                                                 *)

DigitChars == <<"0", "1", "2", "3", "4", "5", "6", "7", "8", "9">>

IsDigit(c) == \E v \in 1..10 : DigitChars[v] = c

DigitValue(c) == (CHOOSE v \in 1..10 : DigitChars[v] = c) - 1

RECURSIVE DigitsOf(_)
DigitsOf(n) ==
    IF n < 10 THEN <<DigitChars[n + 1]>>
    ELSE DigitsOf(n \div 10) \o <<DigitChars[(n % 10) + 1]>>

\* Number.prototype.toString and the template literal `${n}` of an integer.
NumberToString(x) ==
    IF x.nan THEN <<"N", "a", "N">>
    ELSE IF x.val < 0 THEN <<"-">> \o DigitsOf(-x.val)
    ELSE DigitsOf(x.val)

\* String.prototype.padStart with a one-character filler.
RECURSIVE padStart(_, _, _)
padStart(s, len, fill) ==
    IF Len(s) >= len THEN s ELSE padStart(<<fill>> \o s, len, fill)

\* The 1-based index of the first occurrence of pat in s, 0 when there is none.
IndexOf(s, pat) ==
    LET hits == {i \in 1..(Len(s) - Len(pat) + 1) :
                    SubSeq(s, i, i + Len(pat) - 1) = pat}
    IN  IF hits = {} THEN 0 ELSE CHOOSE i \in hits : \A j \in hits : i <= j

\* replace that goes on to every later occurrence, as replaceAll does.
RECURSIVE replaceEvery(_, _, _)
replaceEvery(s, pat, rep) ==
    LET i == IndexOf(s, pat)
    IN  IF i = 0 THEN s
        ELSE SubSeq(s, 1, i - 1) \o rep
                \o replaceEvery(SubSeq(s, i + Len(pat), Len(s)), pat, rep)

\* String.prototype.replace with a string pattern: the first occurrence only.
\* (The replacements used here hold no "$", so none is read as a pattern.)
replace(s, pat, rep) ==
    LET i == IndexOf(s, pat)
    IN  IF i = 0 THEN s
        ELSE SubSeq(s, 1, i - 1) \o rep \o SubSeq(s, i + Len(pat), Len(s))

\* String.prototype.split with a one-character separator.
RECURSIVE split(_, _)
split(s, sep) ==
    LET i == IndexOf(s, <<sep>>)
    IN  IF i = 0 THEN <<s>>
        ELSE <<SubSeq(s, 1, i - 1)>> \o split(SubSeq(s, i + 1, Len(s)), sep)

WhiteSpace == {" "}

RECURSIVE TrimStart(_)
TrimStart(s) ==
    IF s # <<>> /\ Head(s) \in WhiteSpace THEN TrimStart(Tail(s)) ELSE s

RECURSIVE DigitPrefix(_)
DigitPrefix(s) ==
    IF s # <<>> /\ IsDigit(Head(s)) THEN <<Head(s)>> \o DigitPrefix(Tail(s))
    ELSE <<>>

RECURSIVE DecimalValue(_)
DecimalValue(s) ==
    IF s = <<>> THEN 0
    ELSE 10 * DecimalValue(SubSeq(s, 1, Len(s) - 1)) + DigitValue(s[Len(s)])

\* parseInt that reads the empty string as 0, as Number(s) does.
parseIntEmptyIsZero(s) ==
    LET t == TrimStart(s)
        signed == t # <<>> /\ Head(t) \in {"+", "-"}
        digits == DigitPrefix(IF signed THEN Tail(t) ELSE t)
    IN  IF s = <<>> THEN Num(0)
        ELSE IF digits = <<>> THEN NaN
        ELSE IF signed /\ Head(t) = "-" THEN Num(-DecimalValue(digits))
        ELSE Num(DecimalValue(digits))

\* parseInt(s, 10): leading white space, a sign, then the longest run of
\* digits; what follows the digits is ignored, and no digit at all is NaN.
parseInt(s) ==
    LET t == TrimStart(s)
        signed == t # <<>> /\ Head(t) \in {"+", "-"}
        digits == DigitPrefix(IF signed THEN Tail(t) ELSE t)
    IN  IF digits = <<>> THEN NaN
        ELSE IF signed /\ Head(t) = "-" THEN Num(-DecimalValue(digits))
        ELSE Num(DecimalValue(digits))

\* parts[i] of a JavaScript array (0-based); a missing element is undefined,
\* which every use below turns into NaN.
At(parts, i) == IF i + 1 <= Len(parts) THEN parts[i + 1] ELSE NaN

Plus(x, k) == IF x.nan THEN NaN ELSE Num(x.val + k)

----------------------------------------------------------------------------
(* The helpers of dateHelpers.ts                                           *)

\* A calendar field of a Date: NaN for an invalid Date.
Field(d, v) == IF d.valid THEN Num(v) ELSE NaN

\* What the six tokens are replaced by, in the order of Tokens.
FormatFields(zone, d) ==
    LET year == Field(d, getFullYear(zone, d))
        month == padStart(NumberToString(Field(d, getMonth(zone, d) + 1)), 2, "0")
        day == padStart(NumberToString(Field(d, getDate(zone, d))), 2, "0")
        hour == padStart(NumberToString(Field(d, getHours(zone, d))), 2, "0")
        minute == padStart(NumberToString(Field(d, getMinutes(zone, d))), 2, "0")
        second == padStart(NumberToString(Field(d, getSeconds(zone, d))), 2, "0")
    IN  <<NumberToString(year), month, day, hour, minute, second>>

formatDate(zone, d, format) ==
    LET f == FormatFields(zone, d)
        r1 == replace(format, <<"Y", "Y", "Y", "Y">>, f[1])
        r2 == replace(r1, <<"M", "M">>, f[2])
        r3 == replace(r2, <<"D", "D">>, f[3])
        r4 == replace(r3, <<"H", "H">>, f[4])
        r5 == replace(r4, <<"m", "m">>, f[5])
    IN  replace(r5, <<"s", "s">>, f[6])

parseDate(zone, dateString) ==
    LET pieces == split(dateString, "-")
        parts == [i \in 1..Len(pieces) |-> parseInt(pieces[i])]
    IN  NewDate(zone, At(parts, 0), Plus(At(parts, 1), -1), At(parts, 2))

\* addDays written as a sum of milliseconds, 24 hours a day.
addDaysByMillis(zone, d, days) ==
    IF d.valid THEN TimeClip(MakeDate(d.day + days, d.ms)) ELSE InvalidDate

addDays(zone, d, days) ==
    LET result == d
    IN  setDate(zone, result, Plus(Field(result, getDate(zone, result)), days))

isToday(zone, d, today) ==
    /\ d.valid
    /\ today.valid
    /\ getDate(zone, d) = getDate(zone, today)
    /\ getMonth(zone, d) = getMonth(zone, today)
    /\ getFullYear(zone, d) = getFullYear(zone, today)

\* Math.floor((a.getTime() - b.getTime()) / unit) for a unit dividing a day.
FloorDiff(a, b, unit) ==
    (a.day - b.day) * (msPerDay \div unit) + ((a.ms - b.ms) \div unit)

getDayOfYear(zone, d) ==
    LET start == NewDate(zone, Field(d, getFullYear(zone, d)), Num(0), Num(0))
        oneDay == 1000 * 60 * 60 * 24
    IN  IF ~d.valid \/ ~start.valid THEN NaN
        ELSE Num(FloorDiff(d, start, oneDay))

\* Math.ceil(n / 7)
Ceil7(n) == (n + 6) \div 7

getWeekNumber(zone, d) ==
    LET oneJan == NewDate(zone, Field(d, getFullYear(zone, d)), Num(0), Num(1))
        daysInYear == getDayOfYear(zone, d)
    IN  IF daysInYear.nan \/ ~oneJan.valid THEN NaN
        ELSE Num(Ceil7(daysInYear.val + getDay(zone, oneJan) + 1))

getDaysInMonth(zone, month, year) ==
    LET d == NewDate(zone, Num(year), Num(month), Num(0))
    IN  Field(d, getDate(zone, d))

YearsAgo == <<" ", "y", "e", "a", "r", "s", " ", "a", "g", "o">>

MonthsAgo == <<" ", "m", "o", "n", "t", "h", "s", " ", "a", "g", "o">>

Yesterday == <<"Y", "e", "s", "t", "e", "r", "d", "a", "y">>

DaysAgo == <<" ", "d", "a", "y", "s", " ", "a", "g", "o">>

HoursAgo == <<" ", "h", "o", "u", "r", "s", " ", "a", "g", "o">>

MinutesAgo == <<" ", "m", "i", "n", "u", "t", "e", "s", " ", "a", "g", "o">>

SecondsAgo == <<" ", "s", "e", "c", "o", "n", "d", "s", " ", "a", "g", "o">>

\* Math.floor((new Date().getTime() - date.getTime()) / 1000)
ElapsedSeconds(d, current) ==
    IF d.valid /\ current.valid THEN Num(FloorDiff(current, d, 1000)) ELSE NaN

\* timeAgo with "Yesterday" for every whole number of days.
timeAgoYesterdayForDays(d, current) ==
    LET seconds == ElapsedSeconds(d, current)
        s == seconds.val
    IN  IF seconds.nan THEN NumberToString(NaN) \o SecondsAgo
        ELSE IF s \div 31536000 >= 1
            THEN NumberToString(Num(s \div 31536000)) \o YearsAgo
        ELSE IF s \div 2592000 >= 1
            THEN NumberToString(Num(s \div 2592000)) \o MonthsAgo
        ELSE IF s \div 86400 >= 1 THEN Yesterday
        ELSE IF s \div 3600 >= 1
            THEN NumberToString(Num(s \div 3600)) \o HoursAgo
        ELSE IF s \div 60 >= 1
            THEN NumberToString(Num(s \div 60)) \o MinutesAgo
        ELSE NumberToString(Num(s)) \o SecondsAgo

timeAgo(d, current) ==
    LET seconds == ElapsedSeconds(d, current)
        s == seconds.val
    IN  IF seconds.nan THEN NumberToString(NaN) \o SecondsAgo
        ELSE IF s \div 31536000 >= 1
            THEN NumberToString(Num(s \div 31536000)) \o YearsAgo
        ELSE IF s \div 2592000 >= 1
            THEN NumberToString(Num(s \div 2592000)) \o MonthsAgo
        ELSE IF s \div 86400 = 1 THEN Yesterday
        ELSE IF s \div 86400 > 1
            THEN NumberToString(Num(s \div 86400)) \o DaysAgo
        ELSE IF s \div 3600 >= 1
            THEN NumberToString(Num(s \div 3600)) \o HoursAgo
        ELSE IF s \div 60 >= 1
            THEN NumberToString(Num(s \div 60)) \o MinutesAgo
        ELSE NumberToString(Num(s)) \o SecondsAgo

----------------------------------------------------------------------------
(* Bounds and the inputs the helpers are called with                       *)

MaxPieces == 3

MaxParts == 4

MaxShift == 2

MaxCount == 3

\* The Date whose local calendar fields are the given ones (1-based month).
InstantAt(zone, y, m, d, tod) ==
    UTC(zone, MakeDate(MakeDay(y, m - 1, d), tod))

TimesOfDay ==
    { MakeTime(0, 0, 0, 0), MakeTime(0, 30, 0, 0), MakeTime(2, 30, 0, 0),
      MakeTime(9, 5, 7, 0), MakeTime(23, 59, 59, 999) }

RECURSIVE Flatten(_)
Flatten(ss) == IF ss = <<>> THEN <<>> ELSE Head(ss) \o Flatten(Tail(ss))

RECURSIVE Join(_, _)
Join(ss, sep) ==
    IF Len(ss) <= 1 THEN Flatten(ss)
    ELSE Head(ss) \o <<sep>> \o Join(Tail(ss), sep)

TokenYYYY == <<"Y", "Y", "Y", "Y">>

TokenMM == <<"M", "M">>

TokenDD == <<"D", "D">>

TokenHH == <<"H", "H">>

Tokenmm == <<"m", "m">>

Tokenss == <<"s", "s">>

Tokens == <<TokenYYYY, TokenMM, TokenDD, TokenHH, Tokenmm, Tokenss>>

TemplateYMD == Join(<<TokenYYYY, TokenMM, TokenDD>>, "-")

TemplateFull ==
    TemplateYMD \o <<" ">> \o TokenHH \o <<":">> \o Tokenmm \o <<":">> \o Tokenss

\* Templates put together from at most MaxPieces pieces: the six tokens, and
\* text that is no token, or only part of one.
Pieces ==
    {Tokens[i] : i \in 1..6} \cup {<<"-">>, <<"M">>, <<"Y">>}

PieceTemplates ==
    {Flatten(p) : p \in UNION {[1..n -> Pieces] : n \in 0..MaxPieces}}

FormatInputs(zone) ==
    ({InstantAt(zone, y, m, d, tod) :
          y \in {50, 999, 1000, 2024, 9999}, m \in {1, 3, 10, 12},
          d \in {1, 5, 31}, tod \in TimesOfDay} \cup {InvalidDate})
        \X {TemplateYMD, TemplateFull}
    \cup
    { InstantAt(zone, 2024, 3, 5, MakeTime(9, 5, 7, 0)),
      InstantAt(zone, 999, 12, 31, MakeTime(23, 59, 59, 999)) }
        \X PieceTemplates

\* "Y-M-D" as text: the numbers in decimal, padded with zeros or not.
Render(y, m, d, padded) ==
    LET w(n, k) == IF padded THEN padStart(DigitsOf(n), k, "0") ELSE DigitsOf(n)
    IN  Join(<<w(y, 4), w(m, 2), w(d, 2)>>, "-")

ParseYears == {50, 99, 100, 999, 2023, 2024}

\* The parts of a dateString that is not "Y-M-D": numbers, an empty part, a
\* part that is no number, a number followed by something else.
Parts ==
    { <<"2", "0", "2", "4">>, <<"0", "3">>, <<"5">>, <<>>, <<"x">>,
      <<"7", "x">> }

PartTexts ==
    {Join(p, "-") : p \in UNION {[1..n -> Parts] : n \in 1..MaxParts}}

Shifts ==
    (-MaxShift..MaxShift) \cup {-366, -365, -31, -30, 28, 29, 30, 31, 365, 366}

ShiftDates(zone) ==
    {InstantAt(zone, y, m, d, tod) :
        y \in {50, 1900, 2000, 2023, 2024}, m \in 1..12,
        d \in {1, 2, 15, 28, 29, 30, 31},
        tod \in {MakeTime(0, 0, 0, 0), MakeTime(2, 30, 0, 0),
                 MakeTime(23, 59, 59, 999)}}

YearDates(zone) ==
    {InstantAt(zone, y, m, d, tod) :
        y \in {1900, 2000, 2022, 2023, 2024}, m \in 1..12, d \in 1..31,
        tod \in TimesOfDay}

MonthYears == {0, 1, 4, 50, 99, 100, 400, 1900, 2000, 2023, 2024, 2100}

\* What new Date() may return.
Clock(zone) ==
    { InstantAt(zone, 2024, 3, 5, MakeTime(9, 5, 7, 0)),
      InstantAt(zone, 2024, 12, 31, MakeTime(23, 59, 59, 999)) }

\* Elapsed times: around every multiple, up to MaxCount, of every unit that
\* timeAgo knows, a whole number of seconds or not; and times in the future.
Units == {1, 60, 3600, 86400, 2592000, 31536000}

ElapsedSecs ==
    {k * u + e : k \in -1..MaxCount, u \in Units, e \in {-1, 0, 1}} \cup {90}

\* The Date that lies secs seconds and ms milliseconds before current.
Before(current, secs, ms) ==
    MakeDate(current.day - (secs \div 86400),
             current.ms - ((secs % 86400) * 1000) - ms)

ElapsedMs == {0, 1, 999}

----------------------------------------------------------------------------
(* One action per helper: a call with its arguments and what it returns    *)

\* The helpers keep nothing between calls: each call starts from the idle
\* state, and what it returned is dropped before the next one.
Call(o, n, d, s, k, rd, rs, rn, rb) ==
    /\ op' = o
    /\ now' = n
    /\ date' = d
    /\ str' = s
    /\ num' = k
    /\ retDate' = rd
    /\ retStr' = rs
    /\ retNum' = rn
    /\ retBool' = rb
    /\ UNCHANGED tz

Forget ==
    /\ op' = "idle"
    /\ now' = InvalidDate
    /\ date' = InvalidDate
    /\ str' = <<>>
    /\ num' = <<>>
    /\ retDate' = InvalidDate
    /\ retStr' = <<>>
    /\ retNum' = NaN
    /\ retBool' = FALSE
    /\ UNCHANGED tz

FormatDate ==
    /\ op = "idle"
    /\ \E in \in FormatInputs(tz) :
        Call("formatDate", InvalidDate, in[1], in[2], <<>>,
             InvalidDate, formatDate(tz, in[1], in[2]), NaN, FALSE)

ParseDate ==
    /\ op = "idle"
    /\ \/ \E y \in ParseYears, m \in 1..12, d \in 1..31, padded \in BOOLEAN :
            Call("parseDate", InvalidDate, InvalidDate,
                 Render(y, m, d, padded), <<y, m, d>>,
                 parseDate(tz, Render(y, m, d, padded)), <<>>, NaN, FALSE)
       \/ \E text \in PartTexts :
            Call("parseDate", InvalidDate, InvalidDate, text, <<>>,
                 parseDate(tz, text), <<>>, NaN, FALSE)

AddDays ==
    /\ op = "idle"
    /\ \E d \in ShiftDates(tz) \cup {InvalidDate}, days \in Shifts :
        Call("addDays", InvalidDate, d, <<>>, <<days>>,
             addDays(tz, d, days), <<>>, NaN, FALSE)

IsToday ==
    /\ op = "idle"
    /\ \E today \in Clock(tz), secs \in ElapsedSecs, ms \in ElapsedMs :
        Call("isToday", today, Before(today, secs, ms), <<>>, <<secs, ms>>,
             InvalidDate, <<>>, NaN,
             isToday(tz, Before(today, secs, ms), today))

GetDayOfYear ==
    /\ op = "idle"
    /\ \E d \in YearDates(tz) \cup {InvalidDate} :
        Call("getDayOfYear", InvalidDate, d, <<>>, <<>>,
             InvalidDate, <<>>, getDayOfYear(tz, d), FALSE)

GetWeekNumber ==
    /\ op = "idle"
    /\ \E d \in YearDates(tz) \cup {InvalidDate} :
        Call("getWeekNumber", InvalidDate, d, <<>>, <<>>,
             InvalidDate, <<>>, getWeekNumber(tz, d), FALSE)

GetDaysInMonth ==
    /\ op = "idle"
    /\ \E month \in 1..12, year \in MonthYears :
        Call("getDaysInMonth", InvalidDate, InvalidDate, <<>>, <<month, year>>,
             InvalidDate, <<>>, getDaysInMonth(tz, month, year), FALSE)

TimeAgo ==
    /\ op = "idle"
    /\ \/ \E current \in Clock(tz), secs \in ElapsedSecs, ms \in ElapsedMs :
            Call("timeAgo", current, Before(current, secs, ms), <<>>,
                 <<secs, ms>>,
                 InvalidDate, timeAgo(Before(current, secs, ms), current),
                 NaN, FALSE)
       \/ \E current \in Clock(tz) :
            Call("timeAgo", current, InvalidDate, <<>>, <<>>,
                 InvalidDate, timeAgo(InvalidDate, current), NaN, FALSE)

----------------------------------------------------------------------------
Init ==
    /\ tz \in Zones
    /\ op = "idle"
    /\ now = InvalidDate
    /\ date = InvalidDate
    /\ str = <<>>
    /\ num = <<>>
    /\ retDate = InvalidDate
    /\ retStr = <<>>
    /\ retNum = NaN
    /\ retBool = FALSE

Return ==
    /\ op # "idle"
    /\ Forget

Next ==
    \/ Return
    \/ FormatDate
    \/ ParseDate
    \/ AddDays
    \/ IsToday
    \/ GetDayOfYear
    \/ GetWeekNumber
    \/ GetDaysInMonth
    \/ TimeAgo

Spec == Init /\ [][Next]_vars

----------------------------------------------------------------------------
(* The Gregorian calendar, written without the Date arithmetic above       *)

RefLeap(y) == (y % 4 = 0 /\ y % 100 # 0) \/ y % 400 = 0

RefMonthLength(m, y) ==
    IF m = 2 THEN (IF RefLeap(y) THEN 29 ELSE 28)
    ELSE IF m \in {4, 6, 9, 11} THEN 30
    ELSE 31

\* The 1-based ordinal of day d of month m within year y.
RECURSIVE RefOrdinal(_, _, _)
RefOrdinal(y, m, d) ==
    IF m = 1 THEN d ELSE RefMonthLength(m - 1, y) + RefOrdinal(y, m - 1, d)

\* The number of days from 1970-01-01 to y-m-d, counted in 400-year eras of
\* 146097 days with the year starting in March.
RefDayNumber(y, m, d) ==
    LET yy == IF m <= 2 THEN y - 1 ELSE y
        era == yy \div 400
        yoe == yy - era * 400
        mp == IF m > 2 THEN m - 3 ELSE m + 9
        doy == ((153 * mp + 2) \div 5) + d - 1
        doe == yoe * 365 + (yoe \div 4) - (yoe \div 100) + doy
    IN  era * 146097 + doe - 719468

\* n in decimal, exactly w digits wide (n < 10^w).
RefPad(n, w) ==
    LET pow[k \in 0..w] == IF k = 0 THEN 1 ELSE 10 * pow[k - 1]
    IN  [i \in 1..w |-> DigitChars[((n \div pow[w - i]) % 10) + 1]]

\* The local calendar fields of a valid Date.
LocalYear == getFullYear(tz, date)

LocalMonth == getMonth(tz, date) + 1

LocalDay == getDate(tz, date)

----------------------------------------------------------------------------
(* The claims                                                              *)

\* C1 (as claimed): formatDate puts every field in at a fixed width, the year
\* as exactly 4 digits and month, day, hour, minute and second as exactly 2,
\* so that "YYYY-MM-DD" always gives a 10-character string.
C1_EveryFieldHasFixedWidth ==
    (op = "formatDate" /\ date.valid /\ str \in {TemplateYMD, TemplateFull}) =>
        LET ymd == Join(<<RefPad(LocalYear, 4), RefPad(LocalMonth, 2),
                          RefPad(LocalDay, 2)>>, "-")
            hms == Join(<<RefPad(getHours(tz, date), 2),
                          RefPad(getMinutes(tz, date), 2),
                          RefPad(getSeconds(tz, date), 2)>>, ":")
        IN  IF str = TemplateYMD
            THEN Len(retStr) = 10 /\ retStr = ymd
            ELSE retStr = ymd \o <<" ">> \o hms

\* C2 (as claimed): parseDate of "Y-M-D", M in 1..12 and D a day of that
\* month, is local midnight of year Y, month M, day D.
C2_ParsedFieldsAreYMD ==
    (/\ op = "parseDate"
     /\ num # <<>>
     /\ num[3] <= RefMonthLength(num[2], num[1])) =>
        /\ retDate.valid
        /\ getFullYear(tz, retDate) = num[1]
        /\ getMonth(tz, retDate) + 1 = num[2]
        /\ getDate(tz, retDate) = num[3]
        /\ LocalTime(tz, retDate).ms = 0

\* C4 (as claimed): getDaysInMonth(month, year) is the Gregorian length of
\* the month, for every month 1..12 of every year.
C4_DaysInMonthIsGregorian ==
    op = "getDaysInMonth" => retNum = Num(RefMonthLength(num[1], num[2]))

\* Whether some instant of the zone shows the local time tl on its clocks.
LocalTimeExists(zone, tl) ==
    \E off \in {StdOffset(zone), StdOffset(zone) + msPerHour} :
        Offset(zone, MakeDate(tl.day, tl.ms - off)) = off

\* The days from the local date of Date a to the local date of Date b.
RefDaysBetween(a, b) ==
    RefDayNumber(getFullYear(tz, b), getMonth(tz, b) + 1, getDate(tz, b))
        - RefDayNumber(getFullYear(tz, a), getMonth(tz, a) + 1, getDate(tz, a))

\* C3 (as claimed): addDays(d, n) is the date exactly n days after d's, with
\* the hour, minute and second of d.
C3_AddDaysKeepsTimeOfDay ==
    (op = "addDays" /\ date.valid) =>
        /\ retDate.valid
        /\ RefDaysBetween(date, retDate) = num[1]
        /\ getHours(tz, retDate) = getHours(tz, date)
        /\ getMinutes(tz, retDate) = getMinutes(tz, date)
        /\ getSeconds(tz, retDate) = getSeconds(tz, date)

\* C3 (as amended): addDays(d, n) is the local date and time n days after
\* d's, at d's time of day, when the local clocks show that time on that
\* date; when they skip it, the result is that time moved forward over the
\* skipped hour, on the same date.
C3_AddDaysKeepsTimeOfDayThatExists ==
    (op = "addDays" /\ date.valid) =>
        LET from == LocalTime(tz, date)
            target == MakeDate(from.day + num[1], from.ms)
        IN  /\ retDate.valid
            /\ RefDaysBetween(date, retDate) = num[1]
            /\ IF LocalTimeExists(tz, target)
               THEN LocalTime(tz, retDate) = target
               ELSE LocalTime(tz, retDate) =
                        MakeDate(target.day, target.ms + msPerHour)

\* C3 (witness): 2023-02-28 23:59:59.999 plus one day is 2023-03-01, at the
\* same time of day.
C3_Witness ==
    /\ op = "addDays"
    /\ num = <<1>>
    /\ date = InstantAt(tz, 2023, 2, 28, MakeTime(23, 59, 59, 999))
    /\ retDate = InstantAt(tz, 2023, 3, 1, MakeTime(23, 59, 59, 999))

\* C5 (as claimed): getDayOfYear(d) is the 1-based ordinal of d's calendar
\* date within its year, at any time of day and on any date; it is 1 on
\* January 1, and within 1..366.
C5_DayOfYearIsOrdinal ==
    (op = "getDayOfYear" /\ date.valid) =>
        /\ retNum = Num(RefOrdinal(LocalYear, LocalMonth, LocalDay))
        /\ retNum.val \in 1..366
        /\ (LocalMonth = 1 /\ LocalDay = 1) => retNum.val = 1
        /\ (LocalMonth = 12 /\ LocalDay = 31) =>
                retNum.val = IF RefLeap(LocalYear) THEN 366 ELSE 365

\* The phrase the table of buckets gives for s elapsed seconds.
RefPhrase(s) ==
    CASE s >= 31536000 -> NumberToString(Num(s \div 31536000)) \o YearsAgo
      [] s < 31536000 /\ s >= 2592000 ->
            NumberToString(Num(s \div 2592000)) \o MonthsAgo
      [] s < 2592000 /\ s >= 2 * 86400 ->
            NumberToString(Num(s \div 86400)) \o DaysAgo
      [] s < 2 * 86400 /\ s >= 86400 -> Yesterday
      [] s < 86400 /\ s >= 3600 -> NumberToString(Num(s \div 3600)) \o HoursAgo
      [] s < 3600 /\ s >= 60 -> NumberToString(Num(s \div 60)) \o MinutesAgo
      [] s < 60 -> NumberToString(Num(s)) \o SecondsAgo

C7_FormatParseFormat ==
    (/\ op = "formatDate"
     /\ date.valid
     /\ str = TemplateYMD
     /\ LocalTime(tz, date).ms = 0) =>
        formatDate(tz, parseDate(tz, retStr), TemplateYMD) = retStr

\* The place of the leftmost occurrence of pat in t at or after place i,
\* 0 when there is none.
RECURSIVE RefFirst(_, _, _)
RefFirst(t, pat, i) ==
    IF i + Len(pat) - 1 > Len(t) THEN 0
    ELSE IF \A j \in 1..Len(pat) : t[i + j - 1] = pat[j] THEN i
    ELSE RefFirst(t, pat, i + 1)

\* How many occurrences of pat, one after the other, t holds from place i on.
RECURSIVE RefCount(_, _, _)
RefCount(t, pat, i) ==
    IF RefFirst(t, pat, i) = 0 THEN 0
    ELSE 1 + RefCount(t, pat, RefFirst(t, pat, i) + Len(pat))

\* The template t read once from left to right: where the leftmost occurrence
\* of a token starts, the token's field f[k] is put for it; every other
\* character is copied.
RECURSIVE RefSubstitute(_, _, _)
RefSubstitute(t, f, i) ==
    IF i > Len(t) THEN <<>>
    ELSE IF \E k \in 1..6 : RefFirst(t, Tokens[k], 1) = i
    THEN LET k == CHOOSE k \in 1..6 : RefFirst(t, Tokens[k], 1) = i
         IN  f[k] \o RefSubstitute(t, f, i + Len(Tokens[k]))
    ELSE <<t[i]>> \o RefSubstitute(t, f, i + 1)

RefIsInteger(part) ==
    LET t == TrimStart(part)
        u == IF t # <<>> /\ Head(t) \in {"+", "-"} THEN Tail(t) ELSE t
    IN  u # <<>> /\ IsDigit(Head(u))

\* C9 (as claimed): parseDate gives an invalid Date whenever the text is not
\* exactly three hyphen-separated parts that each parse as an integer.
C9_NotThreeIntegersIsInvalid ==
    (/\ op = "parseDate"
     /\ \/ Len(split(str, "-")) # 3
        \/ \E i \in 1..Len(split(str, "-")) : ~RefIsInteger(split(str, "-")[i]))
        => ~retDate.valid

\* C9 (as amended): parseDate gives an invalid Date whenever the text has
\* fewer than three hyphen-separated parts or one of its first three parts
\* does not parse as an integer; parts after the third are not read, so that
\* the result is that of the first three parts alone.
C9_FirstThreePartsDecide ==
    op = "parseDate" =>
        /\ (\/ Len(split(str, "-")) < 3
            \/ \E i \in 1..3 : ~RefIsInteger(split(str, "-")[i]))
                => ~retDate.valid
        /\ Len(split(str, "-")) > 3 =>
                retDate = parseDate(tz, Join(SubSeq(split(str, "-"), 1, 3), "-"))

\* C9 (witness): "2024--5", whose second part is empty, gives an invalid Date.
C9_Witness ==
    /\ op = "parseDate"
    /\ str = <<"2", "0", "2", "4", "-", "-", "5">>
    /\ ~retDate.valid

\* C10 (as claimed): getWeekNumber(d) is
\* ceil((getDayOfYear(d) + weekdayOfJan1 + 1) / 7) and lies within 1..53.
C10_WeekNumberWithin53 ==
    (op = "getWeekNumber" /\ date.valid) =>
        /\ ~retNum.nan
        /\ retNum.val =
            Ceil7(getDayOfYear(tz, date).val
                    + WeekDay(RefDayNumber(LocalYear, 1, 1)) + 1)
        /\ retNum.val \in 1..53

=============================================================================
